---- MODULE Spec2Model ----
(***************************************************************************)
(* Model of tango_augmented_reality::Scene (prototype/src/main/jni/scene.cc) *)
(* Three threads act on one Scene object:                                  *)
(*   - the video producer, which calls OnFrameAvailable,                   *)
(*   - the depth producer, which calls OnXYZijAvailable,                   *)
(*   - the render thread, which calls Render;                              *)
(* the host also calls InitGLContent, SetupViewPort and SetCameraType.     *)
(***************************************************************************)
EXTENDS Integers, Sequences, FiniteSets, TLC

\* ------------------------------------------------------------------ bounds
\* Number of OnFrameAvailable calls the video producer makes.
MaxFrames == 3
\* Number of OnXYZijAvailable calls the depth producer makes.
MaxDepth == 2
\* Number of SetCameraType calls the host makes.
MaxModeSwitches == 3
\* Largest width and height of the frames the conversion is checked on.
MaxDim == 3

\* ------------------------------------------------------- program constants
\* (v - 128) and (u - 128) in Yuv2Rgb.
ChromaBias == 128
\* Coefficients of Yuv2Rgb, in millionths.
CoefRV == 1370705
CoefGV == 698001
CoefGU == 337633
CoefBU == 1732446
Million == 1000000
\* Number of values of a uint8_t.
ByteRange == 256
\* XYZ_ij->xyz[i][0] * .9 and XYZ_ij->xyz[i][1] * 1.2, in tenths.
ScaleXTenths == 9
ScaleYTenths == 12
Tenths == 10

\* --------------------------------------------------------- input domains
\* TangoImageBuffer::format values: the supported layout and another one.
TANGO_HAL_PIXEL_FORMAT_YCrCb_420_SP == "YCrCb_420_SP"
Formats == {TANGO_HAL_PIXEL_FORMAT_YCrCb_420_SP, "RGBA_8888"}
\* <<width, height>> of the frames the camera delivers.
FrameDims == {<<2, 2>>, <<4, 2>>}
\* What glCheckFramebufferStatus can return.
GL_FRAMEBUFFER_COMPLETE == "complete"
FramebufferStatuses == {GL_FRAMEBUFFER_COMPLETE, "incomplete"}
\* What YUVDrawable::GetTextureId can return (0: no texture was generated).
TextureIds == {0, 1}
\* tango_gl::GestureCamera::CameraType
CameraTypes == {"kFirstPerson", "kThirdPerson", "kTopDown"}
\* Arguments of SetupViewPort: <<x, y, w, h>>.
ViewPorts == {<<0, 0, 4, 2>>, <<0, 0, 4, 0>>, <<0, 0, 0, 0>>}
\* Depth deliveries: lists of <<x, y, z>> points (in units where the scale
\* factors are exact).
XYZInputs == {<< >>, << <<10, 10, 10>> >>, << <<20, -10, 30>>, <<-10, 20, 0>> >>}
\* Bytes an over-read of the source image can yield.
GarbageBytes == {0, 255}
\* How the build converts an out-of-range double to uint8_t (undefined in
\* C++): the low byte of the truncated integer, or saturation.
U8Conversions == {"wrap", "saturate"}

VARIABLES
    \* ---- Scene members
    gl_ready,                 \* InitGLContent has allocated the drawables
    fb_status,                \* status of depth_frame_buffer_
    yuv_texture_id,           \* yuv_drawable_->GetTextureId()
    logged,                   \* LOGE messages written so far
    camera_type,              \* gesture_camera_->GetCameraType()
    camera_calls,             \* arguments of the SetCameraType calls so far
    aspect_ratio,             \* gesture_camera_ aspect ratio
    viewport,                 \* the GL viewport
    yuv_drawable,             \* parent / scale / position / rotation
    depth_drawable,
    is_yuv_texture_available_,
    yuv_width_, yuv_height_, uv_buffer_offset_, yuv_size_,
    yuv_buffer_, yuv_temp_buffer_, rgb_frame,
    swap_buffer_signal_,
    yuv_buffer_mutex_,        \* owner: "none", "video" or "render"
    vertices,
    depth_mutex_,             \* owner: "none", "depth" or "render"
    \* ---- video producer thread (OnFrameAvailable)
    vpc, v_buffer, frame_seq,
    last_copy,                \* source length and byte count of the last memcpy
    deposited,                \* slot images written by the memcpy calls so far
    \* ---- depth producer thread (OnXYZijAvailable)
    dpc, d_xyz, points, d_k, depth_seq,
    last_xyz,                 \* argument of the delivery that last assigned vertices
    \* ---- render thread (Render)
    rpc, r_px, gl_trace, drawn_vertices,
    \* ---- build
    u8_conversion,
    \* ---- history
    quiet_cur,                \* no video producer step since the conversion
                              \* now running (or last run) began
    quiet_prev                \* nor since the conversion before it began

sceneVars  == <<gl_ready, fb_status, yuv_texture_id>>
cameraVars == <<camera_type, camera_calls, yuv_drawable, depth_drawable>>
viewVars   == <<aspect_ratio, viewport>>
yuvVars    == <<is_yuv_texture_available_, yuv_width_, yuv_height_,
                uv_buffer_offset_, yuv_size_, yuv_buffer_, yuv_temp_buffer_,
                swap_buffer_signal_>>
videoVars  == <<vpc, v_buffer, frame_seq, last_copy, deposited>>
depthVars  == <<dpc, d_xyz, points, d_k, depth_seq, last_xyz>>
renderVars == <<rpc, r_px, gl_trace, drawn_vertices>>
quietVars  == <<quiet_cur, quiet_prev>>

vars == <<sceneVars, logged, cameraVars, viewVars, yuvVars, rgb_frame,
          yuv_buffer_mutex_, vertices, depth_mutex_, videoVars, depthVars,
          renderVars, u8_conversion, quietVars>>

\* ------------------------------------------------------------- helpers
NoBuffer == [format |-> "none", width |-> 0, height |-> 0, seq |-> 0]

\* Length of the image a camera frame of the given size carries.
ImageLen(w, h) == w * h + (w * h) \div 2

\* Byte k (from 0) of the image of the n-th camera frame: every frame differs
\* from every other, and from a zero-filled buffer, at every offset.
FrameByte(n, k) == (50 * n + 3 * k) % ByteRange

FrameData(buf) ==
    [k \in 1..ImageLen(buf.width, buf.height) |-> FrameByte(buf.seq, k - 1)]

Zeros(n) == [k \in 1..n |-> 0]

\* Truncation toward zero, as the double -> integer conversion does.
Trunc(num, den) == IF num >= 0 THEN num \div den ELSE -((-num) \div den)

\* Conversion of the double value num/Million to uint8_t.
ToU8(num, conv) ==
    LET t == Trunc(num, Million)
    IN  IF t >= 0 /\ t < ByteRange THEN t
        ELSE IF conv = "wrap" THEN t % ByteRange
        ELSE IF t < 0 THEN 0 ELSE ByteRange - 1

\* Yuv2Rgb: the <<r, g, b>> of one pixel.
Yuv2Rgb(yValue, uValue, vValue, conv) ==
    << ToU8(yValue * Million + CoefRV * (vValue - ChromaBias), conv),
       ToU8(yValue * Million - CoefGV * (vValue - ChromaBias)
                             - CoefGU * (uValue - ChromaBias), conv),
       ToU8(yValue * Million + CoefBU * (uValue - ChromaBias), conv) >>


\* Default local transform of a drawable (tango_gl::Transform as constructed).
IdentityTransform ==
    [parent |-> "none", scale |-> <<"1", "1", "1">>,
     position |-> <<"0", "0", "0">>, rotation |-> <<"1", "0", "0", "0">>]

\* --------------------------------------------------------------- Init
\* The Scene as constructed (Scene::Scene() { }), no thread inside a call.
Init ==
    /\ gl_ready = FALSE
    /\ fb_status = "none"
    /\ yuv_texture_id = 0
    /\ logged = {}
    /\ camera_type = "none"
    /\ camera_calls = << >>
    /\ aspect_ratio = [kind |-> "unset", num |-> 0, den |-> 0]
    /\ viewport = [set |-> FALSE, x |-> 0, y |-> 0, w |-> 0, h |-> 0]
    /\ yuv_drawable = IdentityTransform
    /\ depth_drawable = IdentityTransform
    /\ is_yuv_texture_available_ = FALSE
    /\ yuv_width_ = 0 /\ yuv_height_ = 0
    /\ uv_buffer_offset_ = 0 /\ yuv_size_ = 0
    /\ yuv_buffer_ = << >> /\ yuv_temp_buffer_ = << >> /\ rgb_frame = << >>
    /\ swap_buffer_signal_ = FALSE
    /\ yuv_buffer_mutex_ = "none"
    /\ vertices = << >>
    /\ depth_mutex_ = "none"
    /\ vpc = "idle" /\ v_buffer = NoBuffer /\ frame_seq = 0
    /\ last_copy = [src_len |-> 0, count |-> 0]
    /\ deposited = {}
    /\ dpc = "idle" /\ d_xyz = << >> /\ points = << >> /\ d_k = 0
    /\ depth_seq = 0
    /\ last_xyz = << >>
    /\ rpc = "idle" /\ r_px = 0 /\ gl_trace = << >> /\ drawn_vertices = << >>
    /\ u8_conversion \in U8Conversions
    /\ quiet_cur = FALSE /\ quiet_prev = FALSE

\* ------------------------------------------------------- InitGLContent
\* Lines 55-101. The framebuffer status is only logged; the camera starts in
\* third person through the gesture camera's own setter.
InitGLContent ==
    /\ ~gl_ready
    /\ \E status \in FramebufferStatuses, tid \in TextureIds :
          /\ fb_status' = status
          /\ yuv_texture_id' = tid
          /\ logged' = IF status # GL_FRAMEBUFFER_COMPLETE
                       THEN logged \cup {"ERROR in fb"} ELSE logged
    /\ gl_ready' = TRUE
    /\ camera_type' = "kThirdPerson"
    /\ UNCHANGED <<camera_calls, yuv_drawable, depth_drawable, viewVars, yuvVars, rgb_frame,
                   yuv_buffer_mutex_, vertices, depth_mutex_, videoVars,
                   depthVars, renderVars, u8_conversion>>
    /\ UNCHANGED quietVars

\* ------------------------------------------------------ SetupViewPort
\* static_cast<float>(w) / static_cast<float>(h): IEEE division, which yields
\* an infinity or a NaN for a zero divisor.
FloatDiv(w, h) ==
    IF h # 0 THEN [kind |-> "finite", num |-> w, den |-> h]
    ELSE [kind |-> IF w > 0 THEN "+inf" ELSE IF w < 0 THEN "-inf" ELSE "NaN",
          num |-> w, den |-> h]

\* Lines 115-121.
SetupViewPort(x, y, w, h) ==
    /\ gl_ready
    /\ logged' = IF h = 0 THEN logged \cup {"Setup graphic height not valid"}
                 ELSE logged
    /\ aspect_ratio' = FloatDiv(w, h)
    /\ viewport' = [set |-> TRUE, x |-> x, y |-> y, w |-> w, h |-> h]
    /\ UNCHANGED <<sceneVars, cameraVars, yuvVars, rgb_frame, yuv_buffer_mutex_,
                   vertices, depth_mutex_, videoVars, depthVars, renderVars,
                   u8_conversion>>
    /\ UNCHANGED quietVars

HostSetupViewPort == \E vp \in ViewPorts : SetupViewPort(vp[1], vp[2], vp[3], vp[4])

\* ------------------------------------------------------ SetCameraType
\* Lines 189-194: the depth quad, the same in every mode.
DepthQuadTransform ==
    [parent |-> "none", scale |-> <<"0.3", "0.3", "0.3">>,
     position |-> <<"0.6", "-0.6", "0">>, rotation |-> <<"1", "0", "0", "0">>]

\* The first-person branch without its SetParent(nullptr) of line 197.
YuvOverlayKeepingParent(type, old) ==
    IF type = "kFirstPerson"
    THEN [parent |-> old.parent, scale |-> <<"1", "1", "1">>,
          position |-> <<"0", "0", "0">>, rotation |-> <<"1", "0", "0", "0">>]
    ELSE [parent |-> "axis_",
          scale |-> <<"1", "camera_image_plane_ratio_", "1">>,
          position |-> <<"0", "0", "-image_plane_distance_">>,
          rotation |-> <<"1", "0", "0", "0">>]

\* Lines 196-206: the video overlay after SetCameraType(camera_type).
YuvOverlayFor(type, old) ==
    IF type = "kFirstPerson"
    THEN [parent |-> "none", scale |-> <<"1", "1", "1">>,
          position |-> <<"0", "0", "0">>, rotation |-> <<"1", "0", "0", "0">>]
    ELSE [parent |-> "axis_",
          scale |-> <<"1", "camera_image_plane_ratio_", "1">>,
          position |-> <<"0", "0", "-image_plane_distance_">>,
          rotation |-> <<"1", "0", "0", "0">>]

\* Lines 186-207.
SetCameraType(type) ==
    /\ gl_ready
    /\ Len(camera_calls) < MaxModeSwitches
    /\ camera_calls' = Append(camera_calls, type)
    /\ camera_type' = type
    /\ depth_drawable' = DepthQuadTransform
    /\ yuv_drawable' = YuvOverlayFor(type, yuv_drawable)
    /\ UNCHANGED <<sceneVars, logged, viewVars, yuvVars, rgb_frame,
                   yuv_buffer_mutex_, vertices, depth_mutex_, videoVars,
                   depthVars, renderVars, u8_conversion>>
    /\ UNCHANGED quietVars

HostSetCameraType == \E type \in CameraTypes : SetCameraType(type)


\* --------------------------------------------------- OnFrameAvailable
\* The call: the camera hands over its next image.
V_Call ==
    /\ gl_ready
    /\ vpc = "idle"
    /\ frame_seq < MaxFrames
    /\ \E dim \in FrameDims, fmt \in Formats :
          v_buffer' = [format |-> fmt, width |-> dim[1], height |-> dim[2],
                       seq |-> frame_seq + 1]
    /\ frame_seq' = frame_seq + 1
    /\ vpc' = "check"
    /\ UNCHANGED <<sceneVars, logged, cameraVars, viewVars, yuvVars, rgb_frame,
                   yuv_buffer_mutex_, vertices, depth_mutex_, last_copy,
                   deposited, depthVars, renderVars, u8_conversion>>
    /\ quiet_cur' = FALSE /\ quiet_prev' = FALSE

\* Rejection without the format test of lines 219-222.
RejectionTextureOnly(tid, buf) ==
    IF tid = 0 THEN "yuv texture id not valid" ELSE "accepted"

\* Lines 214-222: which message, if any, rejects the call.
Rejection(tid, buf) ==
    IF tid = 0 THEN "yuv texture id not valid"
    ELSE IF buf.format # TANGO_HAL_PIXEL_FORMAT_YCrCb_420_SP
         THEN "yuv texture format is not supported by this app"
         ELSE "accepted"

\* Lines 214-222: the two early returns.
V_Check ==
    /\ vpc = "check"
    /\ LET verdict == Rejection(yuv_texture_id, v_buffer)
       IN  IF verdict # "accepted"
           THEN /\ logged' = logged \cup {verdict}
                /\ vpc' = "idle"
           ELSE /\ logged' = logged
                /\ vpc' = "latch"
    /\ UNCHANGED <<sceneVars, cameraVars, viewVars, yuvVars, rgb_frame,
                   yuv_buffer_mutex_, vertices, depth_mutex_, v_buffer,
                   frame_seq, last_copy, deposited, depthVars, renderVars,
                   u8_conversion>>
    /\ quiet_cur' = FALSE /\ quiet_prev' = FALSE

\* Lines 226-243: the first accepted frame fixes the sizes, allocates the
\* zero-filled buffers and raises the flag; every later frame skips the block.
V_Latch ==
    /\ vpc = "latch"
    /\ IF ~is_yuv_texture_available_
       THEN /\ yuv_width_' = v_buffer.width
            /\ yuv_height_' = v_buffer.height
            /\ uv_buffer_offset_' = v_buffer.width * v_buffer.height
            /\ yuv_size_' = v_buffer.width * v_buffer.height
                            + (v_buffer.width * v_buffer.height) \div 2
            /\ yuv_buffer_' = Zeros(yuv_size_')
            /\ yuv_temp_buffer_' = Zeros(yuv_size_')
            /\ rgb_frame' = [p \in 1..(v_buffer.width * v_buffer.height)
                               |-> <<0, 0, 0>>]
            /\ is_yuv_texture_available_' = TRUE
            /\ UNCHANGED swap_buffer_signal_
       ELSE UNCHANGED <<yuvVars, rgb_frame>>
    /\ vpc' = "lock"
    /\ UNCHANGED <<sceneVars, logged, cameraVars, viewVars, yuv_buffer_mutex_,
                   vertices, depth_mutex_, v_buffer, frame_seq, last_copy,
                   deposited, depthVars, renderVars, u8_conversion>>
    /\ quiet_cur' = FALSE /\ quiet_prev' = FALSE

\* Line 245: std::lock_guard on yuv_buffer_mutex_.
V_Lock ==
    /\ vpc = "lock"
    /\ yuv_buffer_mutex_ = "none"
    /\ yuv_buffer_mutex_' = "video"
    /\ vpc' = "copy"
    /\ UNCHANGED <<sceneVars, logged, cameraVars, viewVars, yuvVars, rgb_frame,
                   vertices, depth_mutex_, v_buffer, frame_seq, last_copy,
                   deposited, depthVars, renderVars, u8_conversion>>
    /\ quiet_cur' = FALSE /\ quiet_prev' = FALSE

\* memcpy(dst, src, n): the first n bytes of src; the bytes past the end of
\* src, when n exceeds its length, are whatever the over-read finds.
Memcpy(src, n, garbage) ==
    [k \in 1..n |-> IF k <= Len(src) THEN src[k] ELSE garbage]

\* The copy of line 246 aimed at the slot the render thread reads.
V_StoreIntoActive(image) ==
    /\ yuv_buffer_' = image
    /\ UNCHANGED yuv_temp_buffer_

\* Line 246: the slot the producer writes and what it holds afterwards.
V_Store(image) ==
    /\ yuv_temp_buffer_' = image
    /\ UNCHANGED yuv_buffer_

\* Line 246.
V_Copy ==
    /\ vpc = "copy"
    /\ \E garbage \in GarbageBytes :
          LET image == Memcpy(FrameData(v_buffer), yuv_size_, garbage)
          IN  /\ V_Store(image)
              /\ deposited' = deposited \cup {image}
    /\ last_copy' = [src_len |-> ImageLen(v_buffer.width, v_buffer.height),
                     count |-> yuv_size_]
    /\ vpc' = "signal"
    /\ UNCHANGED <<sceneVars, logged, cameraVars, viewVars,
                   is_yuv_texture_available_, yuv_width_, yuv_height_,
                   uv_buffer_offset_, yuv_size_, swap_buffer_signal_, rgb_frame,
                   yuv_buffer_mutex_, vertices, depth_mutex_, v_buffer,
                   frame_seq, depthVars, renderVars, u8_conversion>>
    /\ quiet_cur' = FALSE /\ quiet_prev' = FALSE

\* Lines 247-248: the flag, then the lock_guard's release on return.
V_Signal ==
    /\ vpc = "signal"
    /\ swap_buffer_signal_' = TRUE
    /\ yuv_buffer_mutex_' = "none"
    /\ vpc' = "idle"
    /\ UNCHANGED <<sceneVars, logged, cameraVars, viewVars,
                   is_yuv_texture_available_, yuv_width_, yuv_height_,
                   uv_buffer_offset_, yuv_size_, yuv_buffer_, yuv_temp_buffer_,
                   rgb_frame, vertices, depth_mutex_, v_buffer, frame_seq,
                   last_copy, deposited, depthVars, renderVars, u8_conversion>>
    /\ quiet_cur' = FALSE /\ quiet_prev' = FALSE

OnFrameAvailable == V_Call \/ V_Check \/ V_Latch \/ V_Lock \/ V_Copy \/ V_Signal


\* -------------------------------------------------- ConvertYuvToRGBMat
\* yuv_buffer_[idx]: an index past the end reads whatever lies there.
ReadByte(buf, idx, garbage) == IF idx < Len(buf) THEN buf[idx + 1] ELSE garbage

\* The column of the chroma pair without the rounding of lines 273-275.
XIndexUnrounded(j) == j

\* Lines 272-275.
XIndex(j) == IF j % 2 # 0 THEN j - 1 ELSE j

\* Lines 278-280: the indices into yuv_buffer_ read for pixel p = i * width + j
\* (y: first argument of Yuv2Rgb, u: second, v: third).
PixelReads(width, uv_offset, p) ==
    LET i == p \div width
        j == p % width
        x_index == XIndex(j)
    IN  [y |-> i * width + j,
         u |-> uv_offset + (i \div 2) * width + x_index + 1,
         v |-> uv_offset + (i \div 2) * width + x_index]

\* Lines 276-282: the <<r, g, b>> of pixel p = i * width + j.
ConvertPixel(buf, width, uv_offset, p, conv, garbage) ==
    LET rd == PixelReads(width, uv_offset, p)
    IN  Yuv2Rgb(ReadByte(buf, rd.y, garbage), ReadByte(buf, rd.u, garbage),
                ReadByte(buf, rd.v, garbage), conv)

\* Lines 270-284 run over one unchanging buffer.
ConvertImage(buf, width, height, uv_offset, conv) ==
    [p \in 1..(width * height) |->
        ConvertPixel(buf, width, uv_offset, p - 1, conv, 0)]

\* ------------------------------------------------------------- Render
\* The call of Render(cur_pose_transformation).
R_Call ==
    /\ gl_ready
    /\ rpc = "idle"
    /\ rpc' = "guard"
    /\ gl_trace' = << >>
    /\ UNCHANGED <<sceneVars, logged, cameraVars, viewVars, yuvVars, rgb_frame,
                   yuv_buffer_mutex_, vertices, depth_mutex_, videoVars,
                   depthVars, r_px, drawn_vertices, u8_conversion>>
    /\ UNCHANGED quietVars

\* Lines 124-126.
R_Guard ==
    /\ rpc = "guard"
    /\ rpc' = IF ~is_yuv_texture_available_ THEN "idle" ELSE "convert_lock"
    /\ UNCHANGED <<sceneVars, logged, cameraVars, viewVars, yuvVars, rgb_frame,
                   yuv_buffer_mutex_, vertices, depth_mutex_, videoVars,
                   depthVars, r_px, gl_trace, drawn_vertices, u8_conversion>>
    /\ UNCHANGED quietVars

\* Line 264.
R_ConvertLock ==
    /\ rpc = "convert_lock"
    /\ yuv_buffer_mutex_ = "none"
    /\ yuv_buffer_mutex_' = "render"
    /\ rpc' = "convert_swap"
    /\ UNCHANGED <<sceneVars, logged, cameraVars, viewVars, yuvVars, rgb_frame,
                   vertices, depth_mutex_, videoVars, depthVars, r_px, gl_trace,
                   drawn_vertices, u8_conversion>>
    /\ quiet_prev' = quiet_cur /\ quiet_cur' = TRUE

\* The lock of line 264 taken at function scope: still held in the loop.
OwnerHeldThroughLoop == "render"

\* Line 269: the owner of yuv_buffer_mutex_ when the block of lines 263-269
\* is left.
OwnerAfterSwapBlock == "none"

\* Lines 265-269 without the test of the flag.
R_ConvertSwapAlways ==
    /\ rpc = "convert_swap"
    /\ yuv_buffer_' = yuv_temp_buffer_
    /\ yuv_temp_buffer_' = yuv_buffer_
    /\ swap_buffer_signal_' = FALSE
    /\ yuv_buffer_mutex_' = "none"
    /\ r_px' = 0
    /\ rpc' = "convert_loop"
    /\ UNCHANGED <<sceneVars, logged, cameraVars, viewVars,
                   is_yuv_texture_available_, yuv_width_, yuv_height_,
                   uv_buffer_offset_, yuv_size_, rgb_frame, vertices,
                   depth_mutex_, videoVars, depthVars, gl_trace, drawn_vertices,
                   u8_conversion, quietVars>>

\* Lines 265-269 without line 267: the flag stays raised.
R_ConvertSwapKeepingFlag ==
    /\ rpc = "convert_swap"
    /\ IF swap_buffer_signal_
       THEN /\ yuv_buffer_' = yuv_temp_buffer_
            /\ yuv_temp_buffer_' = yuv_buffer_
       ELSE UNCHANGED <<yuv_buffer_, yuv_temp_buffer_>>
    /\ UNCHANGED swap_buffer_signal_
    /\ yuv_buffer_mutex_' = "none"
    /\ r_px' = 0
    /\ rpc' = "convert_loop"
    /\ UNCHANGED <<sceneVars, logged, cameraVars, viewVars,
                   is_yuv_texture_available_, yuv_width_, yuv_height_,
                   uv_buffer_offset_, yuv_size_, rgb_frame, vertices,
                   depth_mutex_, videoVars, depthVars, gl_trace, drawn_vertices,
                   u8_conversion, quietVars>>

\* Lines 265-269.
R_ConvertSwap ==
    /\ rpc = "convert_swap"
    /\ IF swap_buffer_signal_
       THEN /\ yuv_buffer_' = yuv_temp_buffer_
            /\ yuv_temp_buffer_' = yuv_buffer_
            /\ swap_buffer_signal_' = FALSE
       ELSE UNCHANGED <<yuv_buffer_, yuv_temp_buffer_, swap_buffer_signal_>>
    /\ yuv_buffer_mutex_' = OwnerAfterSwapBlock
    /\ r_px' = 0
    /\ rpc' = "convert_loop"
    /\ UNCHANGED <<sceneVars, logged, cameraVars, viewVars,
                   is_yuv_texture_available_, yuv_width_, yuv_height_,
                   uv_buffer_offset_, yuv_size_, rgb_frame, vertices,
                   depth_mutex_, videoVars, depthVars, gl_trace, drawn_vertices,
                   u8_conversion>>
    /\ UNCHANGED quietVars

\* Lines 270-284, one pixel per step; after the last pixel ConvertYuvToRGBMat
\* returns.
R_ConvertPixel ==
    /\ rpc = "convert_loop"
    /\ \E garbage \in GarbageBytes :
          rgb_frame' = [rgb_frame EXCEPT ![r_px + 1] =
              ConvertPixel(yuv_buffer_, yuv_width_, uv_buffer_offset_, r_px,
                           u8_conversion, garbage)]
    /\ r_px' = r_px + 1
    /\ IF r_px + 1 < yuv_width_ * yuv_height_
       THEN /\ rpc' = "convert_loop"
            /\ UNCHANGED gl_trace
       ELSE /\ rpc' = "bind"
            /\ gl_trace' = Append(gl_trace, "ConvertYuvToRGBMat")
    /\ UNCHANGED <<sceneVars, logged, cameraVars, viewVars, yuvVars,
                   yuv_buffer_mutex_, vertices, depth_mutex_, videoVars,
                   depthVars, drawn_vertices, u8_conversion>>
    /\ UNCHANGED quietVars

\* Lines 129-137.
R_BindAndClear ==
    /\ rpc = "bind"
    /\ gl_trace' = gl_trace \o <<"BindRGBMatAsTexture", "glClear(main)",
                                 "trace_->UpdateVertexArray">>
    /\ rpc' = "overlays"
    /\ UNCHANGED <<sceneVars, logged, cameraVars, viewVars, yuvVars, rgb_frame,
                   yuv_buffer_mutex_, vertices, depth_mutex_, videoVars,
                   depthVars, r_px, drawn_vertices, u8_conversion>>
    /\ UNCHANGED quietVars

\* The branch of lines 139-158 taking the else path in every mode.
OverlayDrawsIgnoringMode(type) ==
    <<"gesture_camera_->SetAnchorPosition", "frustum_->Render",
      "axis_->Render", "trace_->Render", "yuv_drawable_->Render(view)">>

\* Lines 139-158: what is drawn in a camera mode.
OverlayDraws(type) ==
    IF type = "kFirstPerson"
    THEN <<"gesture_camera_->SetTransformationMatrix", "glDisable(GL_DEPTH_TEST)",
           "yuv_drawable_->Render(identity)">>
    ELSE <<"gesture_camera_->SetAnchorPosition", "frustum_->Render",
           "axis_->Render", "trace_->Render", "yuv_drawable_->Render(view)">>

\* Lines 139-167: the overlays, then the offscreen target is bound and cleared.
R_Overlays ==
    /\ rpc = "overlays"
    /\ gl_trace' = gl_trace \o OverlayDraws(camera_type)
                     \o <<"glBindFramebuffer(depth_frame_buffer_)",
                          "glClear(depth_frame_buffer_)">>
    /\ rpc' = "depth_lock"
    /\ UNCHANGED <<sceneVars, logged, cameraVars, viewVars, yuvVars, rgb_frame,
                   yuv_buffer_mutex_, vertices, depth_mutex_, videoVars,
                   depthVars, r_px, drawn_vertices, u8_conversion>>
    /\ UNCHANGED quietVars

\* Line 168.
R_DepthLock ==
    /\ rpc = "depth_lock"
    /\ depth_mutex_ = "none"
    /\ depth_mutex_' = "render"
    /\ rpc' = "draw_points"
    /\ UNCHANGED <<sceneVars, logged, cameraVars, viewVars, yuvVars, rgb_frame,
                   yuv_buffer_mutex_, vertices, videoVars, depthVars, r_px,
                   gl_trace, drawn_vertices, u8_conversion>>
    /\ UNCHANGED quietVars

\* Line 169: the point cloud is submitted to the GPU, depth_mutex_ held.
R_DrawPoints ==
    /\ rpc = "draw_points"
    /\ drawn_vertices' = vertices
    /\ gl_trace' = Append(gl_trace, "point_cloud_drawable_->Render")
    /\ rpc' = "depth_unlock"
    /\ UNCHANGED <<sceneVars, logged, cameraVars, viewVars, yuvVars, rgb_frame,
                   yuv_buffer_mutex_, vertices, depth_mutex_, videoVars,
                   depthVars, r_px, u8_conversion>>
    /\ UNCHANGED quietVars

\* Line 170 left out: the tick goes on with depth_mutex_ still held.
R_DepthUnlockKeepingLock ==
    /\ rpc = "depth_unlock"
    /\ UNCHANGED depth_mutex_
    /\ gl_trace' = Append(gl_trace, "glBindFramebuffer(0)")
    /\ rpc' = "blit"
    /\ UNCHANGED <<sceneVars, logged, cameraVars, viewVars, yuvVars, rgb_frame,
                   yuv_buffer_mutex_, vertices, videoVars, depthVars, r_px,
                   drawn_vertices, u8_conversion>>
    /\ UNCHANGED quietVars

\* Lines 170-171.
R_DepthUnlock ==
    /\ rpc = "depth_unlock"
    /\ depth_mutex_' = "none"
    /\ gl_trace' = Append(gl_trace, "glBindFramebuffer(0)")
    /\ rpc' = "blit"
    /\ UNCHANGED <<sceneVars, logged, cameraVars, viewVars, yuvVars, rgb_frame,
                   yuv_buffer_mutex_, vertices, videoVars, depthVars, r_px,
                   drawn_vertices, u8_conversion>>
    /\ UNCHANGED quietVars

\* Lines 173-184 with the depth blit moved behind the grid and cube draws.
R_RestThenBlit ==
    /\ rpc = "blit"
    /\ gl_trace' = gl_trace \o <<"depth_drawable_->Render", "grid_->Render",
                                 "cube_->Render",
                                 "glBlitFramebuffer(GL_DEPTH_BUFFER_BIT)">>
    /\ rpc' = "idle"
    /\ UNCHANGED <<sceneVars, logged, cameraVars, viewVars, yuvVars, rgb_frame,
                   yuv_buffer_mutex_, vertices, depth_mutex_, videoVars,
                   depthVars, r_px, drawn_vertices, u8_conversion>>
    /\ UNCHANGED quietVars

\* Lines 173-184.
R_BlitAndRest ==
    /\ rpc = "blit"
    /\ gl_trace' = gl_trace \o <<"glBlitFramebuffer(GL_DEPTH_BUFFER_BIT)",
                                 "depth_drawable_->Render", "grid_->Render",
                                 "cube_->Render">>
    /\ rpc' = "idle"
    /\ UNCHANGED <<sceneVars, logged, cameraVars, viewVars, yuvVars, rgb_frame,
                   yuv_buffer_mutex_, vertices, depth_mutex_, videoVars,
                   depthVars, r_px, drawn_vertices, u8_conversion>>
    /\ UNCHANGED quietVars

Render == R_Call \/ R_Guard \/ R_ConvertLock \/ R_ConvertSwap \/ R_ConvertPixel
          \/ R_BindAndClear \/ R_Overlays \/ R_DepthLock \/ R_DrawPoints
          \/ R_DepthUnlock \/ R_BlitAndRest

\* --------------------------------------------------- OnXYZijAvailable
\* Lines 253-255: one point, scaled.
ScalePoint(pt) ==
    <<(pt[1] * ScaleXTenths) \div Tenths, (pt[2] * ScaleYTenths) \div Tenths, pt[3]>>

\* Lines 251-256: the flat list of the scaled coordinates, point after point.
RECURSIVE BuildPoints(_, _)
BuildPoints(xyz, acc) ==
    IF xyz = << >> THEN acc
    ELSE BuildPoints(Tail(xyz), acc \o ScalePoint(Head(xyz)))

\* Lines 250-256: the call and the local list.
D_Call ==
    /\ gl_ready
    /\ dpc = "idle"
    /\ depth_seq < MaxDepth
    /\ \E xyz \in XYZInputs :
          /\ d_xyz' = xyz
          /\ points' = BuildPoints(xyz, << >>)
    /\ depth_seq' = depth_seq + 1
    /\ dpc' = "lock"
    /\ UNCHANGED <<sceneVars, logged, cameraVars, viewVars, yuvVars, rgb_frame,
                   yuv_buffer_mutex_, vertices, depth_mutex_, videoVars, d_k,
                   last_xyz, renderVars, u8_conversion>>
    /\ UNCHANGED quietVars

\* Line 257.
D_Lock ==
    /\ dpc = "lock"
    /\ depth_mutex_ = "none"
    /\ depth_mutex_' = "depth"
    /\ d_k' = 0
    /\ dpc' = "assign"
    /\ UNCHANGED <<sceneVars, logged, cameraVars, viewVars, yuvVars, rgb_frame,
                   yuv_buffer_mutex_, vertices, videoVars, d_xyz, points,
                   depth_seq, last_xyz, renderVars, u8_conversion>>
    /\ UNCHANGED quietVars

\* An assignment that keeps what the old list had beyond the new one.
AssignedLengthKeepingTail(old, new) ==
    IF Len(old) > Len(new) THEN Len(old) ELSE Len(new)

\* Line 258, vertices = points: the length the assigned vector ends with.
AssignedLength(old, new) == Len(new)

\* Line 258: the vector assignment copies element after element over the old
\* contents, then fixes the length.
D_Assign ==
    /\ dpc = "assign"
    /\ IF d_k < Len(points)
       THEN /\ vertices' = IF d_k < Len(vertices)
                           THEN [vertices EXCEPT ![d_k + 1] = points[d_k + 1]]
                           ELSE Append(vertices, points[d_k + 1])
            /\ d_k' = d_k + 1
            /\ UNCHANGED <<dpc, last_xyz>>
       ELSE /\ vertices' = SubSeq(vertices, 1, AssignedLength(vertices, points))
            /\ last_xyz' = d_xyz
            /\ dpc' = "unlock"
            /\ UNCHANGED d_k
    /\ UNCHANGED <<sceneVars, logged, cameraVars, viewVars, yuvVars, rgb_frame,
                   yuv_buffer_mutex_, depth_mutex_, videoVars, d_xyz, points,
                   depth_seq, renderVars, u8_conversion>>
    /\ UNCHANGED quietVars

\* Lines 259-260.
D_Unlock ==
    /\ dpc = "unlock"
    /\ depth_mutex_' = "none"
    /\ dpc' = "idle"
    /\ UNCHANGED <<sceneVars, logged, cameraVars, viewVars, yuvVars, rgb_frame,
                   yuv_buffer_mutex_, vertices, videoVars, d_xyz, points, d_k,
                   depth_seq, last_xyz, renderVars, u8_conversion>>
    /\ UNCHANGED quietVars

OnXYZijAvailable == D_Call \/ D_Lock \/ D_Assign \/ D_Unlock

\* ------------------------------------------------------ specifications
\* The whole program.
Next == InitGLContent \/ HostSetupViewPort \/ HostSetCameraType
        \/ OnFrameAvailable \/ OnXYZijAvailable \/ Render

Spec == Init /\ [][Next]_vars

\* The video pipeline: the video producer against the render thread.
NextVideo == InitGLContent \/ OnFrameAvailable \/ Render

SpecVideo == Init /\ [][NextVideo]_vars

\* The first camera frame, as the streaming specifications below start with.
FirstFrame ==
    [format |-> TANGO_HAL_PIXEL_FORMAT_YCrCb_420_SP, width |-> 2, height |-> 2,
     seq |-> 1]

\* The scene once InitGLContent and one whole OnFrameAvailable(frame) have run,
\* then the calls up to OnFrameAvailable(last), each of them rejected, and
\* ndepth whole OnXYZijAvailable calls with no point.
StreamingAfter(frame, last, ndepth) ==
    /\ gl_ready = TRUE
    /\ fb_status \in FramebufferStatuses
    /\ yuv_texture_id = 1
    /\ logged = (IF fb_status # GL_FRAMEBUFFER_COMPLETE
                 THEN {"ERROR in fb"} ELSE {})
                \cup (IF Rejection(1, last) # "accepted"
                      THEN {Rejection(1, last)} ELSE {})
    /\ camera_type = "kThirdPerson"
    /\ camera_calls = << >>
    /\ aspect_ratio = [kind |-> "unset", num |-> 0, den |-> 0]
    /\ viewport = [set |-> FALSE, x |-> 0, y |-> 0, w |-> 0, h |-> 0]
    /\ yuv_drawable = IdentityTransform
    /\ depth_drawable = IdentityTransform
    /\ is_yuv_texture_available_ = TRUE
    /\ yuv_width_ = frame.width /\ yuv_height_ = frame.height
    /\ uv_buffer_offset_ = frame.width * frame.height
    /\ yuv_size_ = ImageLen(frame.width, frame.height)
    /\ yuv_buffer_ = Zeros(ImageLen(frame.width, frame.height))
    /\ yuv_temp_buffer_ = FrameData(frame)
    /\ rgb_frame = [p \in 1..(frame.width * frame.height) |-> <<0, 0, 0>>]
    /\ swap_buffer_signal_ = TRUE
    /\ yuv_buffer_mutex_ = "none"
    /\ vertices = << >>
    /\ depth_mutex_ = "none"
    /\ vpc = "idle" /\ v_buffer = last /\ frame_seq = last.seq
    /\ last_copy = [src_len |-> ImageLen(frame.width, frame.height),
                    count |-> ImageLen(frame.width, frame.height)]
    /\ deposited = {FrameData(frame)}
    /\ dpc = "idle" /\ d_xyz = << >> /\ points = << >> /\ d_k = 0
    /\ depth_seq = ndepth
    /\ last_xyz = << >>
    /\ rpc = "idle" /\ r_px = 0 /\ gl_trace = << >> /\ drawn_vertices = << >>
    /\ u8_conversion \in U8Conversions
    /\ quiet_cur = FALSE /\ quiet_prev = FALSE

\* The scene once InitGLContent and one whole OnFrameAvailable(frame) have run
\* and nothing else has.
StreamingWith(frame) == StreamingAfter(frame, frame, 0)

\* The scene after InitGLContent and OnFrameAvailable(FirstFrame) (a state
\* SpecVideo reaches, see StreamingNotReached).
InitStreaming == StreamingWith(FirstFrame)

\* InitStreaming is a state of the program: SpecVideo violates this.
StreamingNotReached == ~InitStreaming

\* The point cloud hand-off: the depth producer against the render thread,
\* the video producer stalled after its first frame.
NextDepth == OnXYZijAvailable \/ Render

SpecDepth == InitStreaming /\ [][NextDepth]_vars

\* The host's calls against the render thread, the video producer stalled
\* after its first frame.
NextHost == HostSetupViewPort \/ HostSetCameraType \/ Render

SpecHost == InitStreaming /\ [][NextHost]_vars

\* The conversion on its own: the render thread converting a first frame of
\* any size up to MaxDim x MaxDim, odd sizes included.
ConvertDims == (1..MaxDim) \X (1..MaxDim)

InitConvert ==
    \E dim \in ConvertDims :
        StreamingWith([format |-> TANGO_HAL_PIXEL_FORMAT_YCrCb_420_SP,
                       width |-> dim[1], height |-> dim[2], seq |-> 1])

SpecConvert == InitConvert /\ [][Render]_vars

\* The three threads together once streaming has begun.  A thread that can
\* take a step is scheduled in the end; std::mutex::lock returns in the end
\* if the mutex is free again and again.  Nothing obliges the camera service
\* or the host to start a callback or a tick.
LastRejectedFrame ==
    IF MaxFrames > 2
    THEN [format |-> "RGBA_8888", width |-> 2, height |-> 2, seq |-> MaxFrames - 1]
    ELSE FirstFrame

\* The streaming scene with one camera frame and one point cloud still to
\* come: the calls after FirstFrame were rejected, the clouds were empty.  The
\* depth target is complete and the build wraps; neither is read by a guard.
InitFair ==
    /\ StreamingAfter(FirstFrame, LastRejectedFrame, MaxDepth - 1)
    /\ fb_status = GL_FRAMEBUFFER_COMPLETE
    /\ u8_conversion = "wrap"

\* InitFair is a state of the program: Spec violates this.
FairStartNotReached == ~InitFair

NextFair == OnFrameAvailable \/ OnXYZijAvailable \/ Render

Fairness ==
    /\ WF_vars(V_Check \/ V_Latch \/ V_Copy \/ V_Signal)
    /\ SF_vars(V_Lock)
    /\ WF_vars(D_Assign \/ D_Unlock)
    /\ SF_vars(D_Lock)
    /\ WF_vars(R_Guard \/ R_ConvertSwap \/ R_ConvertPixel \/ R_BindAndClear
                 \/ R_Overlays \/ R_DrawPoints \/ R_DepthUnlock \/ R_BlitAndRest)
    /\ SF_vars(R_ConvertLock)
    /\ SF_vars(R_DepthLock)

SpecFair == InitFair /\ [][NextFair]_vars /\ Fairness


\* ================================================================ claims
Range(seq) == {seq[k] : k \in 1..Len(seq)}

\* The images a raw slot can hold as a whole: the zero-filled allocation of
\* lines 234-235, or what one memcpy of line 246 wrote.
SlotImages == deposited \cup {Zeros(yuv_size_)}

\* The render thread is inside the pixel loop or has just left it.
Converting == rpc \in {"convert_loop", "bind"}

\* C1 -- double-buffer correctness. While a conversion runs, and when it has
\* just returned, the slot being read (yuv_buffer_) still holds one whole slot
\* image, and every pixel converted so far in this conversion is the
\* conversion of that one image: a delivery during the conversion neither
\* writes the slot being read nor mixes two frames into one RGB image.
C1_DoubleBuffer ==
    Converting =>
        /\ yuv_buffer_ \in SlotImages
        /\ \A p \in 1..r_px :
              rgb_frame[p] = ConvertImage(yuv_buffer_, yuv_width_, yuv_height_,
                                          uv_buffer_offset_, u8_conversion)[p]

\* C1 witness: the producer has copied a new frame (it is about to raise the
\* flag) while the render thread is in the middle of converting a delivered
\* frame.
C1_DeliveryDuringConversion ==
    /\ rpc = "convert_loop"
    /\ r_px >= 1
    /\ vpc = "signal"
    /\ yuv_buffer_ \in deposited
    /\ yuv_temp_buffer_ # yuv_buffer_

\* C2 -- Render is a no-op until a video frame has been delivered: every
\* conversion a tick performs reads a buffer that holds the bytes of a
\* delivered frame, never the freshly allocated buffer.
C2_ConvertsDeliveredFrame == Converting => yuv_buffer_ \in deposited

\* C3 -- dimension latch: no OnFrameAvailable call copies the latched yuv_size_
\* bytes out of a source image of another length.
C3_CopyMatchesSource == last_copy.count = last_copy.src_len

\* C5 -- the render thread holds yuv_buffer_mutex_ only to test the flag and
\* swap the slots and has released it when the pixel loop runs; the producer
\* holds it only for the copy and the flag; so a producer waiting for the
\* lock during the pixel loop waits for no one.
C5_LockScope ==
    /\ yuv_buffer_mutex_ = "render" => rpc = "convert_swap"
    /\ yuv_buffer_mutex_ = "video" => vpc \in {"copy", "signal"}
    /\ Converting => yuv_buffer_mutex_ # "render"

\* C5 witness: the producer copies under the lock while the render thread is
\* converting pixels.
C5_CopyDuringLoop ==
    /\ rpc = "convert_loop"
    /\ r_px >= 1
    /\ vpc = "copy"
    /\ yuv_buffer_mutex_ = "video"

\* A buffer the code must reject: texture id 0 or another pixel format.
Unsupported(buf) ==
    \/ yuv_texture_id = 0
    \/ buf.format # TANGO_HAL_PIXEL_FORMAT_YCrCb_420_SP

\* C8 -- a video callback with an unsupported pixel format, or arriving while
\* the texture id is 0, is a no-op: every step of such a call leaves the
\* latched sizes, both raw slots, the swap flag, the texture-available flag,
\* the RGB image and the lock as they were, and the call returns from the
\* checks.
C8_RejectedCallIsNoOp ==
    [][ (vpc' # vpc /\ Unsupported(IF vpc = "idle" THEN v_buffer' ELSE v_buffer))
          => /\ UNCHANGED <<yuvVars, rgb_frame, yuv_buffer_mutex_, last_copy,
                            deposited>>
             /\ vpc' \in {"check", "idle"} ]_vars

\* C8 witness: the first call was rejected for its format and the second, with
\* the supported format, has been accepted and copied as the first frame.
C8_AcceptedAfterRejection ==
    /\ "yuv texture format is not supported by this app" \in logged
    /\ frame_seq = 2
    /\ vpc = "idle"
    /\ v_buffer.format = TANGO_HAL_PIXEL_FORMAT_YCrCb_420_SP
    /\ swap_buffer_signal_
    /\ yuv_temp_buffer_ = FrameData(v_buffer)
    /\ yuv_width_ = v_buffer.width /\ yuv_height_ = v_buffer.height


\* C4 -- the depth producer is never blocked on depth_mutex_ while the render
\* thread is rendering the point cloud: no state has the producer waiting at
\* line 257 while the render thread, owning the lock, submits the points.
C4_ProducerNotBlockedByDraw ==
    ~(rpc = "draw_points" /\ depth_mutex_ = "render" /\ dpc = "lock")

\* C6 -- after a failed completeness check of the offscreen target no Render
\* tick composites: no offscreen depth pass and no depth blit is executed.
C6_NoCompositeOnIncompleteTarget ==
    fb_status # GL_FRAMEBUFFER_COMPLETE =>
        /\ "point_cloud_drawable_->Render" \notin Range(gl_trace)
        /\ "glBlitFramebuffer(GL_DEPTH_BUFFER_BIT)" \notin Range(gl_trace)

\* C7 -- SetupViewPort with height 0 is a no-op: the viewport never gets a
\* zero height and the aspect ratio is never the result of a division by it.
C7_ZeroHeightIsNoOp ==
    /\ ~(viewport.set /\ viewport.h = 0)
    /\ aspect_ratio.kind \in {"unset", "finite"}

\* The flat list X*0.9, Y*1.2, Z of the points of one delivery, in order.
ScaledList(xyz) ==
    [k \in 1..(3 * Len(xyz)) |->
        LET pt == xyz[(k - 1) \div 3 + 1]
            c  == (k - 1) % 3
        IN  IF c = 0 THEN (pt[1] * ScaleXTenths) \div Tenths
            ELSE IF c = 1 THEN (pt[2] * ScaleYTenths) \div Tenths
            ELSE pt[3]]

\* C9 -- point cloud replace-on-write: the list a render pass draws is exactly
\* the scaled points of the most recent delivery that has assigned vertices
\* (the empty list before any), same order and count: never a merge with an
\* earlier delivery, never a list caught half-written.
C9_ReplaceOnWrite ==
    rpc = "depth_unlock" => drawn_vertices = ScaledList(last_xyz)

\* C9 witness: a render pass has drawn the one-point list of the second
\* delivery, which replaced a longer first one.
C9_SecondDeliveryDrawn ==
    /\ rpc = "depth_unlock"
    /\ depth_seq = 2
    /\ Len(last_xyz) = 1
    /\ Len(drawn_vertices) = 3
    /\ dpc = "idle"

\* C10 -- mode transition determinism: whenever the last SetCameraType call
\* asked for the first-person mode, the video overlay has no parent, scale
\* (1,1,1), position zero and the identity rotation, whatever calls came
\* before.
C10_FirstPersonOverlay ==
    (camera_calls # << >> /\ camera_calls[Len(camera_calls)] = "kFirstPerson")
        => /\ yuv_drawable.parent = "none"
           /\ yuv_drawable.scale = <<"1", "1", "1">>
           /\ yuv_drawable.position = <<"0", "0", "0">>
           /\ yuv_drawable.rotation = <<"1", "0", "0", "0">>

\* C10 witness: first person was entered, left for the third-person mode and
\* entered again.
C10_BackToFirstPerson ==
    /\ camera_calls = <<"kFirstPerson", "kThirdPerson", "kFirstPerson">>
    /\ camera_type = "kFirstPerson"


\* The video overlay of the third-person and top-down modes (lines 202-205).
ThirdPersonOverlay ==
    [parent |-> "axis_", scale |-> <<"1", "camera_image_plane_ratio_", "1">>,
     position |-> <<"0", "0", "-image_plane_distance_">>,
     rotation |-> <<"1", "0", "0", "0">>]

\* C11 -- in every state after InitGLContent the video overlay is a function
\* of the camera mode: parented under the axis at the image-plane offset and
\* scale in third person, unparented with the identity transform in first
\* person; the state InitGLContent leaves included.
C11_OverlayFollowsMode ==
    gl_ready =>
        /\ camera_type = "kThirdPerson" => yuv_drawable = ThirdPersonOverlay
        /\ camera_type = "kFirstPerson" => yuv_drawable = IdentityTransform

\* The steps of one composed tick, in the order of lines 128-182, the video
\* overlay draw standing for the mode-dependent overlays.
TickPhases(overlay) ==
    <<"ConvertYuvToRGBMat", "BindRGBMatAsTexture", "glClear(main)",
      "trace_->UpdateVertexArray", overlay,
      "glBindFramebuffer(depth_frame_buffer_)", "glClear(depth_frame_buffer_)",
      "point_cloud_drawable_->Render", "glBindFramebuffer(0)",
      "glBlitFramebuffer(GL_DEPTH_BUFFER_BIT)", "depth_drawable_->Render",
      "grid_->Render", "cube_->Render">>

\* A tick that passed the guard has run to its end.
TickComposed == rpc = "idle" /\ gl_trace # << >>

\* C12 -- every Render tick that passes the guard performs, each exactly once
\* and in this order: convert, bind the RGB image, clear the main target,
\* update the trace, draw the overlays, bind and clear the offscreen target,
\* draw the point cloud, unbind, blit the depth, draw depth quad, grid, cube.
C12_TickOrder ==
    TickComposed =>
        \E overlay \in {"yuv_drawable_->Render(identity)",
                        "yuv_drawable_->Render(view)"} :
            SelectSeq(gl_trace, LAMBDA op : op \in Range(TickPhases(overlay)))
                = TickPhases(overlay)

\* C12 witness: a third-person tick has run to its end.
C12_ThirdPersonTickDone ==
    /\ TickComposed
    /\ "frustum_->Render" \in Range(gl_trace)
    /\ "cube_->Render" \in Range(gl_trace)

\* C17 -- the overlay step of a composed tick appends, in first person, the
\* camera transform update, the depth-test switch-off and the video overlay
\* with identity matrices and nothing else; in the other modes the anchor
\* update and the frustum, axis, trace and video overlay draws in that order;
\* and a composed tick has updated the trace before the overlays and has
\* drawn the depth quad, the grid and the cube after them, in both modes.
C17_ModeDependentDrawing ==
    /\ [][ (rpc = "overlays" /\ rpc' # rpc) =>
             gl_trace' = gl_trace
                \o (IF camera_type = "kFirstPerson"
                    THEN <<"gesture_camera_->SetTransformationMatrix",
                           "glDisable(GL_DEPTH_TEST)",
                           "yuv_drawable_->Render(identity)">>
                    ELSE <<"gesture_camera_->SetAnchorPosition",
                           "frustum_->Render", "axis_->Render",
                           "trace_->Render", "yuv_drawable_->Render(view)">>)
                \o <<"glBindFramebuffer(depth_frame_buffer_)",
                     "glClear(depth_frame_buffer_)">> ]_vars
    /\ [](TickComposed =>
             /\ gl_trace[4] = "trace_->UpdateVertexArray"
             /\ SubSeq(gl_trace, Len(gl_trace) - 2, Len(gl_trace))
                  = <<"depth_drawable_->Render", "grid_->Render",
                      "cube_->Render">>)

\* C17 witness: a first-person tick has drawn its overlays.
C17_FirstPersonOverlaysDrawn ==
    /\ rpc = "depth_lock"
    /\ camera_type = "kFirstPerson"
    /\ "glDisable(GL_DEPTH_TEST)" \in Range(gl_trace)
    /\ "frustum_->Render" \notin Range(gl_trace)


\* The indices C14 states for pixel p: luma at i*width + j, V and U at
\* (i/2)*width + j' and + j' + 1 of the chroma plane, j' the even column at
\* or before j.
StatedReads(width, uv_offset, p) ==
    LET i == p \div width
        j == p % width
        jp == j - (j % 2)
    IN  [y |-> i * width + j,
         v |-> uv_offset + (i \div 2) * width + jp,
         u |-> uv_offset + (i \div 2) * width + jp + 1]

\* C14 -- chroma sampling policy: every pixel converted so far in a conversion
\* is Yuv2Rgb of the luma byte at i*width + j and of the U and V bytes at the
\* stated chroma offsets (wherever those lie inside the buffer), so an odd
\* column uses the chroma pair of the even column before it.
C14_ChromaSampling ==
    Converting =>
        \A p \in 0..(r_px - 1) :
            LET rd == StatedReads(yuv_width_, uv_buffer_offset_, p)
            IN  rd.u < Len(yuv_buffer_) =>
                    rgb_frame[p + 1] = Yuv2Rgb(yuv_buffer_[rd.y + 1],
                                               yuv_buffer_[rd.u + 1],
                                               yuv_buffer_[rd.v + 1],
                                               u8_conversion)

\* C14 witness: the odd column of the second row of a 2x2 frame is converted.
C14_OddColumnConverted ==
    /\ rpc = "bind"
    /\ yuv_width_ = 2 /\ yuv_height_ = 2
    /\ yuv_buffer_ \in deposited

\* C19 -- index safety: every index the loop reads for the pixel it is at is
\* below yuv_size_, for every latched width and height >= 1.
C19_IndicesInBounds ==
    rpc = "convert_loop" =>
        LET rd == PixelReads(yuv_width_, uv_buffer_offset_, r_px)
        IN  rd.y < yuv_size_ /\ rd.u < yuv_size_ /\ rd.v < yuv_size_


\* The render thread takes a step of ConvertYuvToRGBMat after its lock.
ConversionStep ==
    /\ rpc \in {"convert_swap", "convert_loop"}
    /\ <<rpc, r_px>>' # <<rpc, r_px>>

\* The step of lines 265-269.
SwapStep == rpc = "convert_swap" /\ rpc' = "convert_loop"

\* C13 -- idempotence: in a conversion that follows another with no video
\* producer step since that one began, the swap block exchanges nothing and
\* every pixel is rewritten with the value the conversion before gave it, so
\* the two RGB images are byte-identical.
C13_Idempotent ==
    [][ (quiet_prev /\ ConversionStep)
          => UNCHANGED <<rgb_frame, yuv_buffer_, yuv_temp_buffer_>> ]_vars

\* C13 witness: a second conversion of a delivered frame has returned, no
\* producer step having happened since the first one began.
C13_SecondConversionDone ==
    /\ rpc = "bind"
    /\ quiet_prev
    /\ yuv_buffer_ \in deposited

\* C16 -- swap-flag protocol: the swap block, under the lock, exchanges the
\* slots exactly when swap_buffer_signal_ is set and leaves the flag cleared;
\* and a conversion that began after the last delivery had returned, with no
\* producer step during it, yields the image of that delivery.
C16_SwapFlagProtocol ==
    /\ [][ SwapStep =>
             /\ yuv_buffer_mutex_ = "render"
             /\ ~swap_buffer_signal_'
             /\ IF swap_buffer_signal_
                THEN /\ yuv_buffer_' = yuv_temp_buffer_
                     /\ yuv_temp_buffer_' = yuv_buffer_
                ELSE UNCHANGED <<yuv_buffer_, yuv_temp_buffer_>> ]_vars
    /\ []( (rpc = "bind" /\ quiet_cur /\ vpc = "idle" /\ frame_seq >= 1
              /\ ~Unsupported(v_buffer))
            => /\ \E garbage \in GarbageBytes :
                     yuv_buffer_ = Memcpy(FrameData(v_buffer), yuv_size_, garbage)
               /\ rgb_frame = ConvertImage(yuv_buffer_, yuv_width_, yuv_height_,
                                           uv_buffer_offset_, u8_conversion) )

\* C16 witness: the second of two accepted deliveries had returned before a
\* conversion began, and that conversion has returned.
C16_LatestFrameConverted ==
    /\ rpc = "bind"
    /\ quiet_cur
    /\ vpc = "idle"
    /\ frame_seq = 2
    /\ Cardinality(deposited) = 2

\* The delivery number of the frame a raw slot holds (0: the allocation).
SeqOf(buf) == CHOOSE n \in 0..MaxFrames : FrameByte(n, 0) = buf[1]

\* C18 -- frames are never shown out of delivery order: the slot a conversion
\* reads is exchanged only by the swap block, and never for a frame delivered
\* before the one the conversion before it read.
C18_DeliveryOrder ==
    [][ /\ SwapStep => SeqOf(yuv_buffer_') >= SeqOf(yuv_buffer_)
        /\ (is_yuv_texture_available_ /\ yuv_buffer_' # yuv_buffer_) => SwapStep
      ]_vars

\* C18 witness: frame 2 is being converted after frame 1 was.
C18_SecondAfterFirst ==
    /\ rpc = "convert_loop"
    /\ SeqOf(yuv_buffer_) = 2
    /\ SeqOf(yuv_temp_buffer_) = 1


\* C15 -- liveness of the scheduling contract: the render thread never holds
\* yuv_buffer_mutex_ and depth_mutex_ together (the producers each know one
\* mutex only), and under fair scheduling every Render tick that has begun
\* completes and every producer callback that has begun returns.
C15_TicksAndCallbacksReturn ==
    /\ [](~(yuv_buffer_mutex_ = "render" /\ depth_mutex_ = "render"))
    /\ [](yuv_buffer_mutex_ \in {"none", "render", "video"})
    /\ [](depth_mutex_ \in {"none", "render", "depth"})
    /\ (rpc # "idle") ~> (rpc = "idle")
    /\ (vpc # "idle") ~> (vpc = "idle")
    /\ (dpc # "idle") ~> (dpc = "idle")

\* C15 witness: both producers wait for a mutex in the middle of a tick, the
\* video producer for the one the render thread holds.
C15_ProducersWaiting ==
    /\ vpc = "lock"
    /\ yuv_buffer_mutex_ = "render"
    /\ dpc = "lock"

====
